---- MODULE Spec2Model ----
(***************************************************************************)
(* A model of todos.py: a command-line todo list kept in a JSON-lines      *)
(* file.  One process invocation runs main(): load, add, remove, modify,   *)
(* mark done, optional listing, save.                                      *)
(*                                                                         *)
(* Python values are encoded as follows.  A str is a sequence of           *)
(* one-character strings (<<"a", ";", "b">> is 'a;b'), so that split and   *)
(* the rule checks are computed character by character.  The booleans      *)
(* stored as dict values are the one-element sequences <<"True">> and      *)
(* True and False are the one-element sequences <<"True">> and <<"False">>, *)
(* which no str can equal.  A dict is a function whose domain is its key   *)
(* set.  A list that can be aliased (a Record's modifications) lives in    *)
(* `heap` and is held by reference.                                        *)
(*                                                                         *)
(* main() takes the argument lists in its fixed order; a step of the model *)
(* is one whole pass of the loop of add_all, remove_all, modify_all or     *)
(* mark_done_all over the next item of the list, so a list is a run of     *)
(* such steps.  An exception that nothing catches ends the process where   *)
(* it is raised (pc = "crashed"); the next invocation loads the file anew. *)
(* MaxRecords caps the records of a collection and MaxLog the entries held *)
(* by all modifications lists of a process.                                *)
(***************************************************************************)
EXTENDS Integers, Sequences, FiniteSets, TLC

VARIABLES
    file,       \* todos.txt: the sequence of JSON objects, one per line
    records,    \* Records.records of the running process
    heap,       \* the list objects holding modifications, by reference
    pc,         \* the position of the running process in main()
    out,        \* what this invocation printed: the listing, the error
    lastOp      \* the statement of main() that ran last, with its argument

vars == <<file, records, heap, pc, out, lastOp>>

----------------------------------------------------------------------------
(* Bounds of the model.                                                    *)

MaxRecords == 2
MaxLog == 2

----------------------------------------------------------------------------
(* Strings.                                                                *)

Digits == {"0", "1", "2", "3", "4", "5", "6", "7", "8", "9"}

DigitVal(c) ==
    CASE c = "0" -> 0 [] c = "1" -> 1 [] c = "2" -> 2 [] c = "3" -> 3
      [] c = "4" -> 4 [] c = "5" -> 5 [] c = "6" -> 6 [] c = "7" -> 7
      [] c = "8" -> 8 [] c = "9" -> 9

\* int() of a string of decimal digits
RECURSIVE ToInt(_)
ToInt(s) ==
    IF s = <<>> THEN 0
    ELSE 10 * ToInt(SubSeq(s, 1, Len(s) - 1)) + DigitVal(s[Len(s)])

\* str.split(sep): the segments between the occurrences of sep; never empty
RECURSIVE split(_, _)
split(s, sep) ==
    IF \A i \in 1..Len(s) : s[i] # sep THEN <<s>>
    ELSE LET k == CHOOSE i \in 1..Len(s) :
                      s[i] = sep /\ \A j \in 1..(i - 1) : s[j] # sep
         IN  <<SubSeq(s, 1, k - 1)>> \o split(SubSeq(s, k + 1, Len(s)), sep)

PyTrue == <<"True">>
PyFalse == <<"False">>

\* Python truth of a value: '' and False are false, other strs and True true
Truthy(v) == v # <<>> /\ v # PyFalse

----------------------------------------------------------------------------
(* Validation rules.                                                       *)

NameMaxLength == 20

\* a String.check whose bound is exclusive
StringCheckExclusive(target) == Len(target) < NameMaxLength

\* String.check; every value it is given is a str
StringCheck(target) == Len(target) <= NameMaxLength

\* the directives of the format '%Y/%m/%d' as _strptime's regex has them
MatchY(s) == Len(s) = 4 /\ \A i \in 1..4 : s[i] \in Digits

MatchM(s) ==
    \/ Len(s) = 2 /\ s[1] = "1" /\ s[2] \in {"0", "1", "2"}
    \/ Len(s) = 2 /\ s[1] = "0" /\ s[2] \in Digits \ {"0"}
    \/ Len(s) = 1 /\ s[1] \in Digits \ {"0"}

MatchD(s) ==
    \/ Len(s) = 2 /\ s[1] = "3" /\ s[2] \in {"0", "1"}
    \/ Len(s) = 2 /\ s[1] \in {"1", "2"} /\ s[2] \in Digits
    \/ Len(s) = 2 /\ s[1] = "0" /\ s[2] \in Digits \ {"0"}
    \/ Len(s) = 1 /\ s[1] \in Digits \ {"0"}
    \/ Len(s) = 2 /\ s[1] = " " /\ s[2] \in Digits \ {"0"}

IsLeap(y) == y % 4 = 0 /\ (y % 100 # 0 \/ y % 400 = 0)

DaysInMonth(y, m) ==
    IF m = 2 THEN (IF IsLeap(y) THEN 29 ELSE 28)
    ELSE IF m \in {4, 6, 9, 11} THEN 30 ELSE 31

\* the day digits of a %d match (a leading space or zero dropped)
DayDigits(s) == IF s[1] = " " THEN SubSeq(s, 2, Len(s)) ELSE s

\* Date.check: strptime(target, '%Y/%m/%d') raises no ValueError
DateCheck(target) ==
    LET p == split(target, "/") IN
    /\ Len(p) = 3
    /\ MatchY(p[1]) /\ MatchM(p[2]) /\ MatchD(p[3])
    /\ ToInt(p[1]) >= 1
    /\ ToInt(DayDigits(p[3])) <= DaysInMonth(ToInt(p[1]), ToInt(p[2]))

Minor == <<"m", "i", "n", "o", "r">>
Major == <<"m", "a", "j", "o", "r">>

PriorityTypes == {Minor, Major}

PriorityCheck(target) == target \in PriorityTypes

----------------------------------------------------------------------------
(* Record.                                                                 *)

OrderedKeys == <<"name", "due_date", "priority">>

\* Record.schema.keys()
SchemaKeys == {"ordered_keys", "name", "due_date", "priority"}

RuleCheck(key, field) ==
    CASE key = "name" -> StringCheck(field)
      [] key = "due_date" -> DateCheck(field)
      [] key = "priority" -> PriorityCheck(field)

\* the list object that is the default value of __init__'s modifications
DefaultList == 0

\* the value of an instance attribute that was never set
Unset == <<"<unset>">>

\* what a failed dict lookup yields in place of a value
KeyError == <<"KeyError">>

\* a Record.__init__ that builds original from its arguments every time
RecordInitRecompute(name, due_date, priority, done, ref, original) ==
    [name |-> name, due_date |-> due_date, priority |-> priority,
     done |-> done, mods |-> ref, ordered_keys |-> Unset,
     original |-> [name |-> name, due_date |-> due_date,
                   priority |-> priority, done |-> done]]

\* Record.__init__; original is <<>> when the argument is left out (None)
\* and <<o>> when the dict o is passed
RecordInit(name, due_date, priority, done, ref, original) ==
    [name |-> name, due_date |-> due_date, priority |-> priority,
     done |-> done, mods |-> ref, ordered_keys |-> Unset,
     original |-> IF original = <<>>
                  THEN [name |-> name, due_date |-> due_date,
                        priority |-> priority, done |-> done]
                  ELSE original[1]]

\* Record.parse's checks: TRUE when no SchemaError is raised
ParseOk(item) ==
    LET splitted == split(item, ";") IN
    /\ Len(splitted) = Cardinality(SchemaKeys) - 1
    /\ \A i \in 1..Len(splitted) : RuleCheck(OrderedKeys[i], splitted[i])

\* Record.parse when no SchemaError is raised: the new Record
Parse(item) ==
    LET splitted == split(item, ";") IN
    RecordInit(splitted[1], splitted[2], splitted[3], PyFalse, DefaultList,
               <<>>)

\* Record.parse when it raises: the SchemaError and the text it reports
ParseError(item) ==
    LET splitted == split(item, ";") IN
    IF Len(splitted) # Cardinality(SchemaKeys) - 1
    THEN [error |-> "SchemaError", what |-> "Item does not fit schema",
          text |-> item]
    ELSE LET i == CHOOSE i \in 1..Len(splitted) :
                      /\ ~RuleCheck(OrderedKeys[i], splitted[i])
                      /\ \A j \in 1..(i - 1) :
                            RuleCheck(OrderedKeys[j], splitted[j])
         IN  [error |-> "SchemaError", what |-> "Rule check failed on field",
              text |-> splitted[i]]

\* a key given as a str, as the name it spells
KeyName(k) ==
    CASE k = <<"n", "a", "m", "e">> -> "name"
      [] k = <<"d", "u", "e", "_", "d", "a", "t", "e">> -> "due_date"
      [] k = <<"p", "r", "i", "o", "r", "i", "t", "y">> -> "priority"
      [] k = <<"o", "r", "d", "e", "r", "e", "d", "_", "k", "e", "y", "s">>
            -> "ordered_keys"
      [] k = <<"d", "o", "n", "e">> -> "done"
      [] k = <<"o", "r", "i", "g", "i", "n", "a", "l">> -> "original"
      [] OTHER -> "?"

\* a Record.check that does not look the key up in the schema
CheckNoSchema(item) ==
    LET parts == split(item, ":") IN
    IF Len(parts) # 2 THEN <<>> ELSE <<KeyName(parts[1]), parts[2]>>

\* a Record.check whose schema has the key done as well
CheckWithDone(item) ==
    LET parts == split(item, ":") IN
    IF Len(parts) # 2 THEN <<>>
    ELSE IF KeyName(parts[1]) \in SchemaKeys \cup {"done"}
         THEN <<KeyName(parts[1]), parts[2]>>
         ELSE <<>>

\* Record.check: <<key, value>>, or <<>> for None
Check(item) ==
    LET parts == split(item, ":") IN
    IF Len(parts) # 2 THEN <<>>
    ELSE IF KeyName(parts[1]) \in SchemaKeys
         THEN <<KeyName(parts[1]), parts[2]>>
         ELSE <<>>

\* a dict[key] = value that keeps the value of a key the dict has
PutKeepFirst(d, key, value) ==
    [x \in (DOMAIN d) \cup {key} |-> IF x \in DOMAIN d THEN d[x] ELSE value]

\* dict[key] = value
Put(d, key, value) ==
    [x \in (DOMAIN d) \cup {key} |-> IF x = key THEN value ELSE d[x]]

EmptyDict == [x \in {} |-> <<>>]

\* setattr(self, key, value): the attribute is set, or made
SetAttr(rec, key, value) ==
    [x \in (DOMAIN rec) \cup {key} |-> IF x = key THEN value ELSE rec[x]]

\* the loop of Record.modify over the specs from position i on:
\* st.rec is self, st.entry is _modifications
RECURSIVE ModifyLoop(_, _, _)
ModifyLoop(st, specs, i) ==
    IF i > Len(specs) THEN st
    ELSE LET checked == Check(specs[i]) IN
         IF checked # <<>>
         THEN ModifyLoop([rec |-> SetAttr(st.rec, checked[1], checked[2]),
                          entry |-> Put(st.entry, checked[1], checked[2])],
                         specs, i + 1)
         ELSE ModifyLoop(st, specs, i + 1)

\* Record.modify: the record after the loop and the entry it appends
Modify(rec, specs) == ModifyLoop([rec |-> rec, entry |-> EmptyDict], specs, 1)

\* Record.mark_done: the record after it and the entry it appends
MarkDone(rec) ==
    [rec |-> [rec EXCEPT !.done = PyTrue],
     entry |-> [x \in {"done"} |-> PyTrue]]

\* self.original[key]
OriginalValue(original, key) ==
    IF key \notin DOMAIN original THEN KeyError ELSE original[key]

\* Record._value_before over the list log; index counts entries from 1, so
\* the call _value_before(key, i - 1) of entry i is ValueBefore(.., i - 1)
RECURSIVE ValueBefore(_, _, _, _)
ValueBefore(log, original, key, index) ==
    IF index < 1 THEN OriginalValue(original, key)
    ELSE IF key \in DOMAIN log[index] /\ Truthy(log[index][key])
         THEN log[index][key]
         ELSE ValueBefore(log, original, key, index - 1)

\* the lines Record._print_changes prints for the entries of indices in idx
ChangeLines(log, original, idx) ==
    {[index |-> i, key |-> k, before |-> ValueBefore(log, original, k, i - 1),
      after |-> log[i][k]] : <<i, k>> \in
        {ik \in idx \X (SchemaKeys \cup {"done"}) : ik[2] \in DOMAIN log[ik[1]]}}

\* the entries at which Record._print_changes raises KeyError
Failing(log, original) ==
    {i \in 1..Len(log) : \E k \in DOMAIN log[i] :
        ValueBefore(log, original, k, i - 1) = KeyError}

\* Record.write: the JSON object of the line
Write(rec, h) ==
    [name |-> rec.name, due_date |-> rec.due_date, priority |-> rec.priority,
     done |-> rec.done, original |-> rec.original,
     modifications |-> h[rec.mods]]

\* Record.load: the Record of a JSON line, its modifications in list ref
Load(obj, ref) ==
    RecordInit(obj.name, obj.due_date, obj.priority, obj.done, ref,
               <<obj.original>>)

----------------------------------------------------------------------------
(* Records.                                                                *)

\* a Records.find that returns the last record of that name
FindLast(recs, name) ==
    IF \A i \in 1..Len(recs) : recs[i].name # name THEN 0
    ELSE CHOOSE i \in 1..Len(recs) :
             /\ recs[i].name = name
             /\ \A j \in (i + 1)..Len(recs) : recs[j].name # name

\* Records.find: the position of the first record of that name, 0 for None
Find(recs, name) ==
    IF \A i \in 1..Len(recs) : recs[i].name # name THEN 0
    ELSE CHOOSE i \in 1..Len(recs) :
             recs[i].name = name /\ \A j \in 1..(i - 1) : recs[j].name # name

\* Records._split; <<>> for None.  max_len = 0 stands for max_len=None
Split(item, max_len) ==
    LET splitted == split(item, ";") IN
    IF max_len = 0 \/ Len(splitted) <= max_len THEN splitted ELSE <<>>

\* list.remove of the record at position k
RemoveAt(recs, k) ==
    [i \in 1..(Len(recs) - 1) |-> IF i < k THEN recs[i] ELSE recs[i + 1]]

\* list.append on the list object ref
HeapAppend(h, ref, entry) == [h EXCEPT ![ref] = Append(@, entry)]

\* a list object no record holds any more is freed; the default list of
\* __init__ lives as long as the process
Collect(h, recs) ==
    [r \in DOMAIN h |->
        IF r = DefaultList \/ \E i \in 1..Len(recs) : recs[i].mods = r
        THEN h[r] ELSE <<>>]

EmptyHeap == [r \in 0..MaxRecords |-> <<>>]

\* the number of entries of the lists from ref r on
RECURSIVE Entries(_, _)
Entries(h, r) ==
    IF r \notin DOMAIN h THEN 0 ELSE Len(h[r]) + Entries(h, r + 1)

\* Records.load: one Record per line of the file, each with its own list
LoadAll(f) == [i \in 1..Len(f) |-> Load(f[i], i)]

LoadHeap(f) ==
    [r \in 0..MaxRecords |->
        IF r \in 1..Len(f) THEN f[r].modifications ELSE <<>>]

\* Records.save: one line per record, in order
SaveAll(recs, h) == [i \in 1..Len(recs) |-> Write(recs[i], h)]

----------------------------------------------------------------------------
(* The arguments of the command line.                                      *)

\* sep.join(parts)
RECURSIVE Join(_, _)
Join(parts, sep) ==
    IF Len(parts) = 1 THEN parts[1]
    ELSE parts[1] \o <<sep>> \o Join(Tail(parts), sep)

NameA == <<"a">>
NameB == <<"b">>
Date1 == <<"2", "0", "2", "4", "/", "0", "1", "/", "1", "5">>
Date2 == <<"2", "0", "2", "4", "/", "2", "/", "2", "9">>
Urgent == <<"u", "r", "g", "e", "n", "t">>
KName == <<"n", "a", "m", "e">>
KPriority == <<"p", "r", "i", "o", "r", "i", "t", "y">>
KOrdered == <<"o", "r", "d", "e", "r", "e", "d", "_", "k", "e", "y", "s">>
KDone == <<"d", "o", "n", "e">>
KDueDate == <<"d", "u", "e", "_", "d", "a", "t", "e">>
KBogus == <<"b", "o", "g", "u", "s">>
FalseStr == <<"F", "a", "l", "s", "e">>

\* key:value
Field(key, value) == Join(<<key, value>>, ":")

\* --add
AddItems ==
    { Join(<<NameA, Date1, Major>>, ";"),
      Join(<<NameB, Date2, Minor>>, ";"),
      Join(<<NameA, NameB>>, ";") }

\* --remove
RemoveItems == { NameA, Join(<<NameA, NameB>>, ";") }

\* --done
DoneItems == { NameA, Join(<<NameA, NameB>>, ";") }

\* --modify
ModifyItems ==
    { Join(<<NameA, Field(KPriority, Minor), Field(KBogus, <<"x">>)>>, ";"),
      Join(<<NameA, Field(KOrdered, <<"x">>), Field(KDone, FalseStr)>>, ";"),
      Join(<<NameB, Field(KPriority, Urgent)>>, ";") }

\* a name of n characters
LongName(n) == [i \in 1..n |-> "c"]

DateSpaceDay == <<"2", "0", "2", "4", "/", "0", "1", "/", " ", "5">>
DateUnpadded == <<"2", "0", "2", "4", "/", "1", "/", "5">>
DateLeap2000 == <<"2", "0", "0", "0", "/", "0", "2", "/", "2", "9">>
DateNoLeap2023 == <<"2", "0", "2", "3", "/", "0", "2", "/", "2", "9">>
DateNoLeap1900 == <<"1", "9", "0", "0", "/", "0", "2", "/", "2", "9">>
DateMonth13 == <<"2", "0", "2", "4", "/", "1", "3", "/", "4", "0">>
DateApril31 == <<"2", "0", "2", "4", "/", "0", "4", "/", "3", "1">>
DateYear0 == <<"0", "0", "0", "0", "/", "0", "1", "/", "0", "1">>
DateShortYear == <<"2", "4", "/", "0", "1", "/", "1", "5">>
DateDashes == <<"2", "0", "2", "4", "-", "0", "1", "-", "1", "5">>
DateTrailing == <<"2", "0", "2", "4", "/", "0", "1", "/", "1", "5", "0">>
DateFourParts == <<"2", "0", "2", "4", "/", "0", "1", "/", "1", "5", "/">>
DateTwoParts == <<"2", "0", "2", "4", "/", "0", "1">>
DateMonth0 == <<"2", "0", "2", "4", "/", "0", "0", "/", "1", "0">>
DateDay0 == <<"2", "0", "2", "4", "/", "0", "1", "/", "0", "0">>
DateAlpha == <<"2", "0", "2", "4", "/", "0", "a", "/", "1", "5">>
MajorCapital == <<"M", "a", "j", "o", "r">>

ParseNames == {NameA, <<>>, LongName(NameMaxLength), LongName(NameMaxLength + 1)}

ParseDates ==
    {Date1, Date2, <<>>, DateSpaceDay, DateUnpadded, DateLeap2000, DateNoLeap2023,
     DateNoLeap1900, DateMonth13, DateApril31, DateYear0,
     DateShortYear, DateDashes, DateTrailing, DateFourParts,
     DateTwoParts, DateMonth0, DateDay0, DateAlpha}

ParsePriorities == {Minor, Major, Urgent, MajorCapital, <<>>}

\* --add, for the checks of Record.parse: each segment varied in turn about
\* a valid line, lines with more than one bad segment, and lines that do
\* not have three segments
ParseItems ==
    {Join(<<n, Date1, Major>>, ";") : n \in ParseNames}
    \cup {Join(<<NameA, d, Minor>>, ";") : d \in ParseDates}
    \cup {Join(<<NameB, Date2, p>>, ";") : p \in ParsePriorities}
    \cup { Join(<<LongName(NameMaxLength + 1), DateMonth13, Urgent>>, ";"),
           Join(<<NameA, DateNoLeap2023, Urgent>>, ";"),
           Join(<<LongName(NameMaxLength + 1), Date1, Urgent>>, ";"),
           <<>>,
           NameA,
           Join(<<NameA, NameB>>, ";"),
           Join(<<NameA, Date1>>, ";"),
           Join(<<NameA, Date1, Major, <<>>>>, ";"),
           Join(<<NameA, Date1, Major, Minor>>, ";"),
           Join(<<Join(<<NameA, Date1>>, ":"), Major>>, ";") }

\* --modify, for the checks of Record.modify: no spec, the example of an
\* unknown key, a key given twice, specs of three parts, of one part and
\* empty, an empty key, every key of the schema, values that no rule
\* accepts, the key done, a name set to '' and set back, no such record
ModifyInputs ==
    { NameA,
      Join(<<NameA, Field(KPriority, Minor), Field(KBogus, <<"x">>)>>, ";"),
      Join(<<NameA, Field(KName, NameB), Field(KName, NameA)>>, ";"),
      Join(<<NameA, Join(<<KName, NameA, NameB>>, ":"), KName>>, ";"),
      Join(<<NameA, <<>>, Field(KPriority, Major)>>, ";"),
      Join(<<NameA, Field(KOrdered, <<"x">>), Field(KDone, FalseStr)>>, ";"),
      Join(<<NameA, Field(KDueDate, <<"x">>), Field(KPriority, Urgent),
             Field(KName, NameA)>>, ";"),
      Join(<<NameA, Field(<<>>, <<"x">>)>>, ";"),
      Join(<<NameA, Field(KName, <<>>)>>, ";"),
      Join(<<<<>>, Field(KName, NameA), Field(KPriority, Minor)>>, ";"),
      Join(<<NameB, Field(KName, NameA)>>, ";") }

----------------------------------------------------------------------------
(* main().                                                                 *)

Op(op, item) == [op |-> op, item |-> item]

Init ==
    /\ file = <<>>
    /\ records = <<>>
    /\ heap = EmptyHeap
    /\ pc = "loaded"
    /\ out = <<>>
    /\ lastOp = Op("load", <<>>)

\* the process has ended, by save() or by an exception nothing catches;
\* the next invocation starts: records = Records.load()
Start ==
    /\ pc \in {"saved", "crashed"}
    /\ records' = LoadAll(file)
    /\ heap' = LoadHeap(file)
    /\ pc' = "loaded"
    /\ out' = <<>>
    /\ lastOp' = Op("load", <<>>)
    /\ UNCHANGED file

\* an add_all that saves the records added so far when an item fails
AddOneSavingOnError(item) ==
    /\ pc \in {"loaded", "add"}
    /\ IF ParseOk(item)
       THEN /\ Len(records) < MaxRecords
            /\ records' = Append(records, Parse(item))
            /\ pc' = "add"
            /\ UNCHANGED <<heap, out, file>>
       ELSE /\ pc' = "crashed"
            /\ out' = <<ParseError(item)>>
            /\ file' = SaveAll(records, heap)
            /\ UNCHANGED <<records, heap>>
    /\ lastOp' = Op("add", item)

\* one item of records.add_all(args.add)
AddOne(item) ==
    /\ pc \in {"loaded", "add"}
    /\ IF ParseOk(item)
       THEN /\ Len(records) < MaxRecords
            /\ records' = Append(records, Parse(item))
            /\ pc' = "add"
            /\ UNCHANGED <<heap, out>>
       ELSE /\ pc' = "crashed"
            /\ out' = <<ParseError(item)>>
            /\ UNCHANGED <<records, heap>>
    /\ lastOp' = Op("add", item)
    /\ UNCHANGED file

\* the body of Records.remove_all's loop: the records left
RemoveItem(recs, item) ==
    LET parts == Split(item, 1)
        k == IF parts # <<>> THEN Find(recs, parts[1]) ELSE 0
    IN  IF k > 0 THEN RemoveAt(recs, k) ELSE recs

\* one item of records.remove_all(args.remove)
RemoveOne(item) ==
    /\ pc \in {"loaded", "add", "remove"}
    /\ records' = RemoveItem(records, item)
    /\ heap' = Collect(heap, records')
    /\ pc' = "remove"
    /\ lastOp' = Op("remove", item)
    /\ UNCHANGED <<file, out>>

\* the record Records.modify_all's loop body looks up, 0 for None
ModifyTarget(recs, item) == Find(recs, Split(item, 0)[1])

\* one item of records.modify_all(args.modify)
ModifyOne(item) ==
    LET k == ModifyTarget(records, item) IN
    /\ pc \in {"loaded", "add", "remove", "modify"}
    /\ IF k > 0
       THEN LET m == Modify(records[k], Tail(Split(item, 0))) IN
            /\ Entries(heap, 0) < MaxLog
            /\ records' = [records EXCEPT ![k] = m.rec]
            /\ heap' = HeapAppend(heap, records[k].mods, m.entry)
       ELSE UNCHANGED <<records, heap>>
    /\ pc' = "modify"
    /\ lastOp' = Op("modify", item)
    /\ UNCHANGED <<file, out>>

\* the record Records.mark_done_all's loop body looks up, 0 for None
DoneTarget(recs, item) ==
    LET parts == Split(item, 1) IN
    IF parts # <<>> THEN Find(recs, parts[1]) ELSE 0

\* one item of records.mark_done_all(args.done)
DoneOne(item) ==
    LET k == DoneTarget(records, item) IN
    /\ pc \in {"loaded", "add", "remove", "modify", "done"}
    /\ IF k > 0
       THEN LET m == MarkDone(records[k]) IN
            /\ Entries(heap, 0) < MaxLog
            /\ records' = [records EXCEPT ![k] = m.rec]
            /\ heap' = HeapAppend(heap, records[k].mods, m.entry)
       ELSE UNCHANGED <<records, heap>>
    /\ pc' = "done"
    /\ lastOp' = Op("done", item)
    /\ UNCHANGED <<file, out>>

\* Record.print_wo_changes: the values of the line it prints
StateLine(rec) ==
    [name |-> rec.name, due_date |-> rec.due_date,
     priority |-> rec.priority,
     color |-> IF Truthy(rec.done) THEN "green" ELSE "red", changes |-> {}]

\* Record.print_w_changes when no lookup fails
FullLines(rec, h) ==
    [StateLine(rec) EXCEPT
        !.changes = ChangeLines(h[rec.mods], rec.original,
                                1..Len(h[rec.mods]))]

\* records.list_wo_changes()
ListWo ==
    /\ pc \in {"loaded", "add", "remove", "modify", "done"}
    /\ out' = [i \in 1..Len(records) |-> StateLine(records[i])]
    /\ pc' = "list"
    /\ lastOp' = Op("list", <<>>)
    /\ UNCHANGED <<file, records, heap>>

\* the records whose print_w_changes raises KeyError
Raising(recs, h) ==
    {i \in 1..Len(recs) : Failing(h[recs[i].mods], recs[i].original) # {}}

\* records.list_w_changes(): every record is printed, or the first lookup
\* that fails ends the process, after the lines printed before it: the
\* newer entries, and the keys that the dict's iteration yields first
ListW ==
    /\ pc \in {"loaded", "add", "remove", "modify", "done"}
    /\ IF Raising(records, heap) = {}
       THEN /\ out' = [i \in 1..Len(records) |-> FullLines(records[i], heap)]
            /\ pc' = "list"
            /\ UNCHANGED <<records, heap>>
       ELSE LET r == CHOOSE i \in Raising(records, heap) :
                         \A j \in Raising(records, heap) : i <= j
                log == heap[records[r].mods]
                bad == Failing(log, records[r].original)
                e == CHOOSE i \in bad : \A j \in bad : j <= i
                newer == ChangeLines(log, records[r].original,
                                     (e + 1)..Len(log))
                same == {l \in ChangeLines(log, records[r].original, {e}) :
                             l.before # KeyError}
            IN  /\ \E first \in SUBSET same :
                    out' = [i \in 1..r |->
                              IF i < r THEN FullLines(records[i], heap)
                              ELSE [StateLine(records[r]) EXCEPT
                                       !.changes = newer \cup first]]
                /\ pc' = "crashed"
                /\ UNCHANGED <<records, heap>>
    /\ lastOp' = Op("list_w_changes", <<>>)
    /\ UNCHANGED file

\* records.save()
Save ==
    /\ pc \in {"loaded", "add", "remove", "modify", "done", "list"}
    /\ file' = SaveAll(records, heap)
    /\ pc' = "saved"
    /\ lastOp' = Op("save", <<>>)
    /\ UNCHANGED <<records, heap, out>>

Next ==
    \/ Start
    \/ \E item \in AddItems : AddOne(item)
    \/ \E item \in RemoveItems : RemoveOne(item)
    \/ \E item \in ModifyItems : ModifyOne(item)
    \/ \E item \in DoneItems : DoneOne(item)
    \/ ListWo
    \/ ListW
    \/ Save

Spec == Init /\ [][Next]_vars

\* invocations that add and mark done, over the lines of ParseItems
NextParse ==
    \/ Start
    \/ \E item \in ParseItems : AddOne(item)
    \/ \E item \in DoneItems : DoneOne(item)

SpecParse == Init /\ [][NextParse]_vars

\* invocations that add one line, modify over the items of ModifyInputs,
\* mark done and save
NextModify ==
    \/ Start
    \/ AddOne(Join(<<NameA, Date1, Major>>, ";"))
    \/ \E item \in ModifyInputs : ModifyOne(item)
    \/ \E item \in DoneItems : DoneOne(item)
    \/ Save

SpecModify == Init /\ [][NextModify]_vars

----------------------------------------------------------------------------
(* Properties of main().                                                   *)

\* the record the statement op acts on in the collection recs, 0 for none
Target(recs, op) ==
    IF op.op = "modify" THEN ModifyTarget(recs, op.item)
    ELSE IF op.op = "done" THEN DoneTarget(recs, op.item)
    ELSE 0

\* C3: an --add item that fails validation ends the invocation with
\* SchemaError before save() is reached, and the file holds what it held
\* when the invocation loaded it: the step of the failing item leaves the
\* file alone, the file is still the one the first records were loaded
\* from, and nothing but the next invocation follows.
C3_FailedAddPersistsNothing ==
    [][/\ \A item \in AddItems :
            (lastOp' = Op("add", item) /\ ~ParseOk(item)) =>
                /\ pc' = "crashed"
                /\ out'[1].error = "SchemaError"
                /\ file' = file
                /\ SubSeq(records, 1, Len(file)) = LoadAll(file)
       /\ pc = "crashed" => (file' = file /\ pc' = "loaded")]_vars

\* a failing item met after records were added, over a file that held some
C3_Witness ==
    /\ pc = "crashed"
    /\ lastOp.op = "add"
    /\ Len(file) > 0
    /\ Len(records) > Len(file)

\* C4: every record of the collection has a name of at most 20 characters,
\* a due_date that is a valid date and a priority that is minor or major.
C4_FieldsValid ==
    \A i \in 1..Len(records) :
        /\ StringCheck(records[i].name)
        /\ DateCheck(records[i].due_date)
        /\ PriorityCheck(records[i].priority)

\* C5: done is monotonic and only mark_done changes it: a step of
\* modify_all or mark_done_all keeps every done that is True, a step of
\* modify_all changes no record's done, whatever its specs, and save and the
\* next load carry each record's done over unchanged.
C5_DoneMonotonic ==
    [][/\ lastOp'.op \in {"modify", "done"} =>
            /\ Len(records') = Len(records)
            /\ \A i \in 1..Len(records) :
                   records[i].done = PyTrue => records'[i].done = PyTrue
       /\ lastOp'.op = "modify" =>
            \A i \in 1..Len(records) : records'[i].done = records[i].done
       /\ lastOp'.op = "save" =>
            /\ Len(file') = Len(records)
            /\ \A i \in 1..Len(records) : file'[i].done = records[i].done
       /\ lastOp'.op = "load" =>
            /\ Len(records') = Len(file)
            /\ \A i \in 1..Len(file) : records'[i].done = file[i].done]_vars

\* a record that was done is modified with a 'done:False' spec, and is done
C5_Witness ==
    /\ lastOp.op = "modify"
    /\ \E i \in 1..Len(Split(lastOp.item, 0)) :
           Split(lastOp.item, 0)[i] = Field(KDone, FalseStr)
    /\ \E i \in 1..Len(records) :
           /\ i = Find(records, NameA)
           /\ records[i].done = PyTrue
           /\ records[i].ordered_keys = <<"x">>

\* the number of ';' in a string
Semicolons(s) == Cardinality({i \in 1..Len(s) : s[i] = ";"})

\* C6: a remove spec with more than one segment changes nothing; a spec of
\* one segment removes the first record of that name, if any, and leaves the
\* other records, their order and their logs as they were.
C6_RemoveFirstMatch ==
    [][\A item \in RemoveItems : lastOp' = Op("remove", item) =>
          LET hits == {i \in 1..Len(records) : records[i].name = item} IN
          IF Semicolons(item) > 0 \/ hits = {}
          THEN records' = records /\ heap' = heap
          ELSE LET k == CHOOSE i \in hits : \A j \in hits : i <= j IN
               /\ Len(records') = Len(records) - 1
               /\ \A i \in 1..(k - 1) : records'[i] = records[i]
               /\ \A i \in k..Len(records') : records'[i] = records[i + 1]
               /\ \A i \in 1..Len(records') :
                      heap'[records'[i].mods] = heap[records'[i].mods]]_vars

\* the first of two records named a was removed: the one left is named a,
\* and is the one that was not marked done
C6_Witness ==
    /\ lastOp = Op("remove", NameA)
    /\ Len(records) >= 1
    /\ records[Len(records)].name = NameA
    /\ \E i \in 1..Len(file) : file[i].name = NameA /\ file[i].done = PyTrue
    /\ \A i \in 1..Len(records) :
           records[i].name = NameA => records[i].done = PyFalse

\* every entry of every modifications list, in memory and in the file
AllEntries ==
    {heap[r][i] : <<r, i>> \in
        {ri \in (DOMAIN heap) \X (1..MaxLog) : ri[2] <= Len(heap[ri[1]])}}
    \cup
    {file[l].modifications[i] : <<l, i>> \in
        {li \in (1..Len(file)) \X (1..MaxLog) :
            li[2] <= Len(file[li[1]].modifications)}}

\* C7 as stated: the keys of every entry of every modifications log, in
\* memory and in the saved file, are among name, due_date and priority.
C7_OnlyFieldKeys ==
    \A e \in AllEntries : DOMAIN e \subseteq {"name", "due_date", "priority"}

\* C7 as amended: every entry is either the entry {done: True} that
\* mark_done appends, or an entry of modify, whose keys are among the keys
\* of the schema dict: name, due_date, priority and ordered_keys.
C7_EntryKeys ==
    \A e \in AllEntries :
        \/ DOMAIN e = {"done"} /\ e["done"] = PyTrue
        \/ DOMAIN e \subseteq {"name", "due_date", "priority", "ordered_keys"}

\* the saved file holds an entry of mark_done and one with ordered_keys
C7_Witness ==
    \E l \in 1..Len(file) :
        LET log == file[l].modifications IN
        /\ \E i \in 1..Len(log) : "done" \in DOMAIN log[i]
        /\ \E i \in 1..Len(log) : "ordered_keys" \in DOMAIN log[i]

\* C8: a record's original never changes.  A record made by parse has the
\* three parsed fields and done = False as its original; modify, mark_done,
\* the listing and save leave every original alone; remove leaves those of
\* the records it keeps alone; save writes it and load takes it verbatim.
C8_OriginalImmutable ==
    [][/\ lastOp'.op \in {"modify", "done", "list", "list_w_changes", "save"}
            => /\ Len(records') = Len(records)
               /\ \A i \in 1..Len(records) :
                      records'[i].original = records[i].original
       /\ (lastOp'.op = "add" /\ pc' = "add") =>
            /\ Len(records') = Len(records) + 1
            /\ \A i \in 1..Len(records) :
                   records'[i].original = records[i].original
            /\ LET new == records'[Len(records')]
                   seg == split(lastOp'.item, ";")
               IN  new.original = [name |-> seg[1], due_date |-> seg[2],
                                   priority |-> seg[3], done |-> PyFalse]
       /\ (lastOp'.op = "remove" /\ records' # records) =>
            \E k \in 1..Len(records) :
                /\ Len(records') = Len(records) - 1
                /\ \A i \in 1..(k - 1) :
                       records'[i].original = records[i].original
                /\ \A i \in k..Len(records') :
                       records'[i].original = records[i + 1].original
       /\ lastOp'.op = "save" =>
            \A i \in 1..Len(records) :
                file'[i].original = records[i].original
       /\ lastOp'.op = "load" =>
            \A i \in 1..Len(file) :
                records'[i].original = file[i].original]_vars

\* a record loaded from the file whose fields are no longer those of its
\* original, after a modify and a mark_done
C8_Witness ==
    /\ lastOp.op = "load"
    /\ \E i \in 1..Len(records) :
           /\ records[i].original.priority = Major
           /\ records[i].priority = Minor
           /\ records[i].original.done = PyFalse
           /\ records[i].done = PyTrue

\* C9: modify or mark_done applied to one record leaves every other record
\* of the collection, and its modifications log, unchanged.
C9_OwnLog ==
    [][LET k == Target(records, lastOp') IN
       k > 0 => \A j \in 1..Len(records) : j # k =>
                    /\ records'[j] = records[j]
                    /\ heap'[records'[j].mods] = heap[records[j].mods]]_vars

\* C10: when a change is applied to a record, the 'before' value that the
\* change history shows for each key of the new entry is defined, and is
\* the value that field of the record held just before the change.
C10_BeforeIsValueHeld ==
    [][LET k == Target(records, lastOp') IN
       k > 0 =>
           LET log == heap'[records'[k].mods]
               n == Len(log)
           IN  \A key \in DOMAIN log[n] :
                   LET before == ValueBefore(log, records'[k].original,
                                             key, n - 1)
                   IN  before # KeyError /\ before = records[k][key]]_vars

----------------------------------------------------------------------------
(* Properties of Record.parse.                                             *)

DigitOf(n) == <<"0", "1", "2", "3", "4", "5", "6", "7", "8", "9">>[n + 1]

\* n written with w digits, zeros in front
RECURSIVE Decimal(_, _)
Decimal(n, w) ==
    IF w = 0 THEN <<>> ELSE Decimal(n \div 10, w - 1) \o <<DigitOf(n % 10)>>

\* n < 100 written without padding
Plain(n) == IF n < 10 THEN Decimal(n, 1) ELSE Decimal(n, 2)

MonthLengths == <<31, 28, 31, 30, 31, 30, 31, 31, 30, 31, 30, 31>>

LengthOfMonth(y, m) ==
    IF m = 2 /\ (y % 400 = 0 \/ (y % 4 = 0 /\ y % 100 # 0)) THEN 29
    ELSE MonthLengths[m]

\* the days of the calendar in the years that the lines of ParseItems name
\* (the calendar has no year 0)
CalendarDays ==
    {ymd \in {1900, 2000, 2023, 2024} \X (1..12) \X (1..31) :
        ymd[3] <= LengthOfMonth(ymd[1], ymd[2])}

Slash(y, m, d) == y \o <<"/">> \o m \o <<"/">> \o d

\* the days of the calendar written YYYY/MM/DD
StrictDates ==
    {Slash(Decimal(ymd[1], 4), Decimal(ymd[2], 2), Decimal(ymd[3], 2)) :
        ymd \in CalendarDays}

\* the days of the calendar as strptime reads them under '%Y/%m/%d': the
\* year in four digits, the month and the day in one or two digits, with or
\* without a zero in front, a one-digit day also with a space in front
StrptimeDates ==
    UNION {{Slash(Decimal(ymd[1], 4), m, d) :
              m \in {Plain(ymd[2]), Decimal(ymd[2], 2)},
              d \in {Plain(ymd[3]), Decimal(ymd[3], 2)} \cup
                    (IF ymd[3] < 10 THEN {<<" ">> \o Plain(ymd[3])} ELSE {})} :
           ymd \in CalendarDays}

\* one step of add_all, when the valid dates are those of the set dates:
\* parse succeeds exactly on three segments that are a name of at most 20
\* characters, a valid date and minor or major; otherwise it raises
\* SchemaError on the line, or on the first segment that fails; on success
\* the new record has the three segments as its fields, done = False, an
\* empty modifications log and the fields and done = False as its original
ParseStep(dates) ==
    \A item \in ParseItems : lastOp' = Op("add", item) =>
        LET seg == split(item, ";")
            ok1 == Len(seg[1]) <= 20
            ok2 == seg[2] \in dates
            ok3 == seg[3] \in {Minor, Major}
        IN  IF Len(seg) = 3 /\ ok1 /\ ok2 /\ ok3
            THEN /\ pc' = "add"
                 /\ Len(records') = Len(records) + 1
                 /\ \A i \in 1..Len(records) : records'[i] = records[i]
                 /\ LET new == records'[Len(records')] IN
                    /\ new.name = seg[1]
                    /\ new.due_date = seg[2]
                    /\ new.priority = seg[3]
                    /\ new.done = PyFalse
                    /\ heap'[new.mods] = <<>>
                    /\ new.original =
                          [name |-> seg[1], due_date |-> seg[2],
                           priority |-> seg[3], done |-> PyFalse]
            ELSE /\ pc' = "crashed"
                 /\ records' = records
                 /\ out'[1].error = "SchemaError"
                 /\ out'[1].text =
                       IF Len(seg) # 3 THEN item
                       ELSE IF ~ok1 THEN seg[1]
                       ELSE IF ~ok2 THEN seg[2]
                       ELSE seg[3]

----------------------------------------------------------------------------
(* Properties of Record.modify.                                            *)

\* the positions of ':' in a spec
Colons(spec) == {i \in 1..Len(spec) : spec[i] = ":"}

\* the two parts of a spec that has one ':'
KeyPart(spec) == SubSeq(spec, 1, (CHOOSE i \in Colons(spec) : TRUE) - 1)
ValuePart(spec) ==
    SubSeq(spec, (CHOOSE i \in Colons(spec) : TRUE) + 1, Len(spec))

\* the keys that modify recognises, each as the str that spells it
Recognised ==
    [a \in {"name", "due_date", "priority", "ordered_keys"} |->
        CASE a = "name" -> KName
          [] a = "due_date" -> KDueDate
          [] a = "priority" -> KPriority
          [] a = "ordered_keys" -> KOrdered]

\* C2: one call of modify appends exactly one entry to the record's
\* modifications log, whatever the specs.  The entry has exactly the keys
\* of the specs that split on ':' into two parts with a recognised key,
\* each with the value of the last such spec; the record's attributes of
\* those keys take those values and no other attribute of the record
\* changes.
C2_ModifyOneEntry ==
    [][\A item \in ModifyInputs :
         (lastOp' = Op("modify", item) /\ ModifyTarget(records, item) > 0) =>
            LET k == ModifyTarget(records, item)
                specs == Tail(split(item, ";"))
                old == heap[records[k].mods]
                new == heap'[records[k].mods]
                good == {i \in 1..Len(specs) :
                            /\ Cardinality(Colons(specs[i])) = 1
                            /\ \E a \in DOMAIN Recognised :
                                   KeyPart(specs[i]) = Recognised[a]}
                keys == {a \in DOMAIN Recognised : \E i \in good :
                            KeyPart(specs[i]) = Recognised[a]}
                last(a) == CHOOSE i \in good :
                               /\ KeyPart(specs[i]) = Recognised[a]
                               /\ \A j \in good :
                                      KeyPart(specs[j]) = Recognised[a]
                                          => j <= i
            IN  /\ Len(records') = Len(records)
                /\ Len(new) = Len(old) + 1
                /\ SubSeq(new, 1, Len(old)) = old
                /\ DOMAIN new[Len(new)] = keys
                /\ \A a \in keys :
                       /\ new[Len(new)][a] = ValuePart(specs[last(a)])
                       /\ records'[k][a] = ValuePart(specs[last(a)])
                /\ DOMAIN records'[k] = DOMAIN records[k]
                /\ \A a \in (DOMAIN records[k]) \ keys :
                       records'[k][a] = records[k][a]]_vars

\* the second entry of a record's log is that of the call modify(
\* ['priority:minor', 'bogus:x']): {priority: minor}, and only priority
\* changed
C2_Witness ==
    /\ lastOp = Op("modify", Join(<<NameA, Field(KPriority, Minor),
                                    Field(KBogus, <<"x">>)>>, ";"))
    /\ Len(records) >= 1
    /\ Len(heap[records[1].mods]) = 2
    /\ heap[records[1].mods][2] = [x \in {"priority"} |-> Minor]
    /\ records[1].priority = Minor
    /\ records[1].name = NameA
    /\ records[1].original.priority = Major

====
